---- MODULE Spec2Model ----
(***************************************************************************)
(* A model of poeditor_query.py: the Mapping of one language (local        *)
(* directory name / remote language code), the Mappings collection built   *)
(* from the local directory listing and the remote project listing, and    *)
(* the status / download / upload / delete operations on them.             *)
(*                                                                         *)
(* Strings are sequences of ASCII code points, so that str.lower,          *)
(* str.upper, str.replace, str.split, str.join and the ordering used by    *)
(* list.sort are computed character by character.  None is the empty       *)
(* sequence: every test the program makes on an optional field is a        *)
(* truthiness test (`if self.local():`), under which None and "" agree.    *)
(*                                                                         *)
(* Environment: the translation service (project languages `remote`, the   *)
(* service-wide catalog AvailableLanguages, its answer to                  *)
(* add_language_to_project) and the local tree (`dirs`, the set of         *)
(* subdirectories of language_root_path; every language directory holds    *)
(* its <project_name>.po catalog, the layout the program consumes, and     *)
(* names are compared exactly, as on a case-sensitive file system).        *)
(***************************************************************************)
EXTENDS Integers, Sequences, FiniteSets, TLC

VARIABLES pc, projects, dirs, remote, fixes, mappings, steps, last, prev

vars == <<pc, projects, dirs, remote, fixes, mappings, steps, last, prev>>

-----------------------------------------------------------------------------
(* Bounds of the model *)

\* at most this many language directories under language_root_path at start
MaxLocal == 2
\* at most this many languages on the remote project at start
MaxRemote == 2
\* at most this many per-Mapping method calls after the collection is built
MaxCalls == 2

-----------------------------------------------------------------------------
(* Strings *)

None == <<>>

\* the characters "-" and "_"
HYPHEN == <<45>>
UNDERSCORE == <<95>>

en      == <<101, 110>>                        \* "en"
es      == <<101, 115>>                        \* "es"
fr      == <<102, 114>>                        \* "fr"
zh_CN   == <<122, 104, 95, 67, 78>>            \* "zh_CN"
zh_cn   == <<122, 104, 95, 99, 110>>           \* "zh_cn"
ZH_CN   == <<90, 72, 95, 67, 78>>              \* "ZH_CN"
zhDcn   == <<122, 104, 45, 99, 110>>           \* "zh-cn"
zhDCN   == <<122, 104, 45, 67, 78>>            \* "zh-CN"
zhDHans == <<122, 104, 45, 72, 97, 110, 115>>  \* "zh-Hans"

\* bool(x) of an optional string
Truthy(x) == x # None

\* str.lower / str.upper on ASCII
lower(s) == [i \in DOMAIN s |-> IF s[i] >= 65 /\ s[i] <= 90 THEN s[i] + 32 ELSE s[i]]
upper(s) == [i \in DOMAIN s |-> IF s[i] >= 97 /\ s[i] <= 122 THEN s[i] - 32 ELSE s[i]]

\* s.replace(a, b) for one-character a and b
replace(s, a, b) == [i \in DOMAIN s |-> IF s[i] = a[1] THEN b[1] ELSE s[i]]

\* s.split(sep) for a one-character sep: the parts between the separators
RECURSIVE split(_, _)
split(s, sep) ==
    IF \A i \in DOMAIN s : s[i] # sep[1]
    THEN <<s>>
    ELSE LET k == CHOOSE i \in DOMAIN s :
                     s[i] = sep[1] /\ \A j \in 1..(i - 1) : s[j] # sep[1]
         IN  <<SubSeq(s, 1, k - 1)>> \o split(SubSeq(s, k + 1, Len(s)), sep)

\* sep.join(parts)
RECURSIVE join(_, _)
join(parts, sep) ==
    IF parts = <<>> THEN <<>>
    ELSE IF Len(parts) = 1 THEN parts[1]
    ELSE parts[1] \o sep \o join(Tail(parts), sep)

\* a < b for str: by code point, a proper prefix first
StrLess(a, b) ==
    \E k \in 1..(Len(b)) :
        /\ \A j \in 1..(k - 1) : j <= Len(a) /\ a[j] = b[j]
        /\ k - 1 <= Len(a)
        /\ (k > Len(a) \/ a[k] < b[k])

-----------------------------------------------------------------------------
(* The translation service *)

\* api.available_languages(): the service-wide catalog, display name -> code
AvailableLanguages ==
    << <<  <<69, 110>>, en >>,          \* "En"
       <<  <<69, 115>>, es >>,          \* "Es"
       <<  <<90, 99>>, zhDCN >>,        \* "Zc"
       <<  <<90, 104>>, zhDHans >> >>   \* "Zh"

\* one entry of api.list_project_languages(): code, name, percentage, updated
LanguageEntry(code) ==
    [code       |-> code,
     name       |-> IF \E k \in DOMAIN AvailableLanguages : AvailableLanguages[k][2] = code
                    THEN AvailableLanguages[CHOOSE k \in DOMAIN AvailableLanguages :
                                                AvailableLanguages[k][2] = code][1]
                    ELSE code,
     percentage |-> IF code = en THEN 100 ELSE IF code = es THEN 50
                    ELSE IF code = zhDCN THEN 80 ELSE 0,
     updated    |-> IF code = en THEN 3 ELSE IF code = es THEN 1
                    ELSE IF code = zhDCN THEN 2 ELSE 0]

-----------------------------------------------------------------------------
(* class Mapping *)

\* Mapping.__init__
NewMapping ==
    [local |-> None, server |-> None, name |-> None,
     server_completed |-> 0, server_updated |-> 0]

set_local(m, local) == [m EXCEPT !.local = local]

create_local(local) == set_local(NewMapping, local)

\* server_completed / server_updated: 0 stands for None (both are falsy)
set_server(m, server, name, server_completed, server_updated) ==
    [m EXCEPT !.server = server, !.name = name,
              !.server_completed = server_completed,
              !.server_updated = server_updated]

create_server(server, name) == set_server(NewMapping, server, name, 0, 0)

matches_code(m, code) ==
    \/ Truthy(m.local) /\ lower(m.local) = lower(replace(code, HYPHEN, UNDERSCORE))
    \/ Truthy(m.server) /\ lower(m.server) = lower(replace(code, UNDERSCORE, HYPHEN))

\* fixes is the dict of (local, server) pairs, in its iteration order
_local_to_server(m, fx) ==
    IF \E k \in DOMAIN fx : fx[k][1] = m.local \/ fx[k][2] = m.local
    THEN fx[CHOOSE k \in DOMAIN fx :
                /\ fx[k][1] = m.local \/ fx[k][2] = m.local
                /\ \A j \in 1..(k - 1) : ~(fx[j][1] = m.local \/ fx[j][2] = m.local)][2]
    ELSE lower(replace(m.local, UNDERSCORE, HYPHEN))

_server_to_local(m, fx) ==
    IF \E k \in DOMAIN fx : fx[k][1] = m.server \/ fx[k][2] = m.server
    THEN fx[CHOOSE k \in DOMAIN fx :
                /\ fx[k][1] = m.server \/ fx[k][2] = m.server
                /\ \A j \in 1..(k - 1) : ~(fx[j][1] = m.server \/ fx[j][2] = m.server)][1]
    ELSE LET parts == split(m.server, HYPHEN)
         IN  join([k \in DOMAIN parts |-> IF k = 1 THEN parts[k] ELSE upper(parts[k])],
                  UNDERSCORE)

\* Mapping._server_to_name: the catalog name of `server`, None for KeyError
_server_to_name(server) ==
    IF \E k \in DOMAIN AvailableLanguages : AvailableLanguages[k][2] = server
    THEN AvailableLanguages[CHOOSE k \in DOMAIN AvailableLanguages :
             /\ AvailableLanguages[k][2] = server
             /\ \A j \in 1..(k - 1) : AvailableLanguages[j][2] # server][1]
    ELSE None

\* The result of a Mapping method: the mapping, the project's languages and the
\* local directories after it, what it returned or raised, the remote calls made,
\* and the directory under language_root_path whose catalog it wrote (None: none).
Outcome(m, rem, ds, ret, n, po) ==
    [m |-> m, remote |-> rem, dirs |-> ds, ret |-> ret, calls |-> n, po |-> po]

\* Mapping.sync_from_server
sync_from_server(m, rem, ds, fx) ==
    IF ~Truthy(m.server)
    THEN Outcome(m, rem, ds, "False", 0, None)
    ELSE LET local == _server_to_local(m, fx)
         IN  IF local \notin ds
             THEN Outcome(set_local(m, local), rem, ds \cup {local}, "True", 1, local)
             ELSE Outcome(m, rem, ds, "True", 1, local)

\* sync_to_server without its set_server call
sync_to_server_unlinked(m, rem, ds, fx, accepted) ==
    IF ~Truthy(m.local)
    THEN Outcome(m, rem, ds, "ValueError", 0, None)
    ELSE IF ~Truthy(m.server)
    THEN IF ~accepted
         THEN Outcome(m, rem, ds, "False", 1, None)
         ELSE Outcome(m, rem \cup {_local_to_server(m, fx)}, ds, "True", 3, None)
    ELSE Outcome(m, rem, ds, "True", 1, None)

\* Mapping.sync_to_server; `accepted` is the service's answer to
\* add_language_to_project (FALSE: it raises POEditorException)
sync_to_server(m, rem, ds, fx, accepted) ==
    IF ~Truthy(m.local)
    THEN Outcome(m, rem, ds, "ValueError", 0, None)
    ELSE IF ~Truthy(m.server)
    THEN LET server == _local_to_server(m, fx)
             name == _server_to_name(server)
         IN  IF ~accepted
             THEN Outcome(m, rem, ds, "False", 1, None)
             ELSE IF name = None
             THEN Outcome(m, rem \cup {server}, ds, "False", 2, None)
             ELSE Outcome(set_server(m, server, name, 0, 0),
                          rem \cup {server}, ds, "True", 3, None)
    ELSE Outcome(m, rem, ds, "True", 1, None)

\* Mapping.delete_on_server
delete_on_server(m, rem, ds) ==
    IF Truthy(m.server)
    THEN Outcome(set_server(m, None, None, 0, 0), rem \ {m.server}, ds, "True", 1, None)
    ELSE Outcome(m, rem, ds, "False", 0, None)

\* Mapping.table_str: the columns of the status row
table_str(m) ==
    [local |-> m.local, local_avail |-> Truthy(m.local),
     server_avail |-> Truthy(m.server), server |-> m.server,
     name |-> m.name, completed |-> m.server_completed, updated |-> m.server_updated]

-----------------------------------------------------------------------------
(* class Mappings *)

\* project_name, lower-cased by the caller
ProjectName == <<115, 100>>   \* "sd"

\* project_name_to_id: the id of the first project whose lower-cased name is
\* project_name, 0 for None
project_name_to_id(ps) ==
    IF \E k \in DOMAIN ps : lower(ps[k].name) = ProjectName
    THEN ps[CHOOSE k \in DOMAIN ps :
                /\ lower(ps[k].name) = ProjectName
                /\ \A j \in 1..(k - 1) : lower(ps[j].name) # ProjectName].id
    ELSE 0

\* find_mapping (in get_mapping): the index of the first mapping matching c, 0 for None
find_mapping(ms, c) ==
    IF \E i \in DOMAIN ms : matches_code(ms[i], c)
    THEN CHOOSE i \in DOMAIN ms :
             matches_code(ms[i], c) /\ \A j \in 1..(i - 1) : ~matches_code(ms[j], c)
    ELSE 0

\* Mappings.get_mapping: the index of the mapping found, 0 for KeyError
get_mapping(ms, code, fx) ==
    LET hit(k) == /\ lower(fx[k][1]) = lower(code) \/ lower(fx[k][2]) = lower(code)
                  /\ find_mapping(ms, fx[k][1]) # 0
    IN  IF find_mapping(ms, code) # 0 THEN find_mapping(ms, code)
        ELSE IF \E k \in DOMAIN fx : hit(k)
        THEN find_mapping(ms, fx[CHOOSE k \in DOMAIN fx :
                                     hit(k) /\ \A j \in 1..(k - 1) : ~hit(j)][1])
        ELSE 0

add_mapping(ms, m) == Append(ms, m)

\* the loop of from_project_name over the server's languages
RECURSIVE add_server_languages(_, _, _)
add_server_languages(ms, langs, fx) ==
    IF langs = <<>> THEN ms
    ELSE LET server == Head(langs)
             i == get_mapping(ms, server.code, fx)
             ms2 == IF i # 0
                    THEN [ms EXCEPT ![i] = set_server(ms[i], server.code, server.name,
                                                       server.percentage, server.updated)]
                    ELSE add_mapping(ms, create_server(server.code, server.name))
         IN  add_server_languages(ms2, Tail(langs), fx)

\* Mappings.from_project_name, given the directory listing and the language listing
from_project_name(local_languages, server_languages, fx) ==
    add_server_languages([k \in DOMAIN local_languages |-> create_local(local_languages[k])],
                         server_languages, fx)

\* list.sort(key), stable: s ordered by its elements' keys, ties in s's order;
\* less[x, y] says that x's key is smaller than y's
StableSort(s, less) ==
    LET rank(p) == 1 + Cardinality({q \in DOMAIN s :
                        \/ less[s[q], s[p]]
                        \/ ~less[s[p], s[q]] /\ q < p})
    IN  [r \in DOMAIN s |-> s[CHOOSE p \in DOMAIN s : rank(p) = r]]

\* a reverse that leaves the list as it is
reverse_noop(s) == s

\* list.reverse
reverse(s) == [k \in DOMAIN s |-> s[Len(s) + 1 - k]]

\* Mappings.iter: the indices of the selected mappings, in the order returned.
\* sort_specs is ("r" if reverse else "") + (sort_order or ""): r and k.
iter(ms, language_filter, sort_specs) ==
    LET all == [k \in DOMAIN ms |-> k]
        result == IF language_filter # <<>>
                  THEN SelectSeq(all, LAMBDA i : \E f \in DOMAIN language_filter :
                                                   matches_code(ms[i], language_filter[f]))
                  ELSE all
        by_l == [i, j \in DOMAIN ms |-> StrLess(ms[i].local, ms[j].local)]
        by_s == [i, j \in DOMAIN ms |-> StrLess(ms[i].server, ms[j].server)]
        by_n == [i, j \in DOMAIN ms |-> StrLess(ms[i].name, ms[j].name)]
        by_p == [i, j \in DOMAIN ms |-> ms[i].server_completed < ms[j].server_completed]
        by_t == [i, j \in DOMAIN ms |-> ms[i].server_updated < ms[j].server_updated]
        sorted == IF sort_specs.k = "l" THEN StableSort(result, by_l)
                  ELSE IF sort_specs.k = "s" THEN StableSort(result, by_s)
                  ELSE IF sort_specs.k = "n" THEN StableSort(result, by_n)
                  ELSE IF sort_specs.k = "p" THEN StableSort(result, by_p)
                  ELSE IF sort_specs.k = "t" THEN StableSort(result, by_t)
                  ELSE result
    IN  IF sort_specs.r THEN reverse(sorted) ELSE sorted

\* the per-Mapping call a bulk operation makes
mapping_op(op, m, rem, ds, fx, accepted) ==
    IF op = "print_table" THEN Outcome(m, rem, ds, "str", 0, None)
    ELSE IF op = "sync_from_server" THEN sync_from_server(m, rem, ds, fx)
    ELSE IF op = "sync_to_server" THEN sync_to_server(m, rem, ds, fx, accepted)
    ELSE delete_on_server(m, rem, ds)

\* the state of a bulk operation before its loop
bulk_start(ms, rem, ds) ==
    [mappings |-> ms, remote |-> rem, dirs |-> ds, nb_requested |-> 0, fails |-> <<>>,
     visited |-> <<>>, results |-> <<>>, calls |-> 0, ret |-> "tuple"]

\* the loop of print_table / sync_from_server / sync_to_server / delete_on_server
\* over iter(...): it ends at `return nb_requested, fails`, or where a call raises
RECURSIVE bulk_loop(_, _, _, _, _)
bulk_loop(op, sel, fx, accepted, st) ==
    IF sel = <<>> THEN st
    ELSE LET i == Head(sel)
             o == mapping_op(op, st.mappings[i], st.remote, st.dirs, fx, accepted[i])
             st2 == [mappings     |-> [st.mappings EXCEPT ![i] = o.m],
                     remote       |-> o.remote,
                     dirs         |-> o.dirs,
                     nb_requested |-> st.nb_requested + 1,
                     fails        |-> IF o.ret = "False"
                                      THEN Append(st.fails, i) ELSE st.fails,
                     visited      |-> Append(st.visited, i),
                     results      |-> Append(st.results, o.ret),
                     calls        |-> st.calls + o.calls,
                     ret          |-> IF o.ret = "ValueError" THEN "ValueError" ELSE "tuple"]
         IN  IF st2.ret = "ValueError" THEN st2
             ELSE bulk_loop(op, Tail(sel), fx, accepted, st2)

\* Mappings.delete_on_server's gate: the operator typed `name`
confirmed(name) == lower(name) = ProjectName

\* format_fails: a failed mapping with neither code makes str.join raise
format_fails(ms, fails) ==
    IF \E k \in DOMAIN fails :
           ~Truthy(ms[fails[k]].local) /\ ~Truthy(ms[fails[k]].server)
    THEN "TypeError" ELSE "Done"

\* __main__ after the command: unpack `nb_requested, fails`, print the summary
main_end(ms, ret, fails) ==
    IF ret = "None" THEN "TypeError"
    ELSE IF ret # "tuple" THEN ret
    ELSE IF fails # <<>> THEN format_fails(ms, fails)
    ELSE "Done"

-----------------------------------------------------------------------------
(* Inputs *)

\* names a subdirectory of language_root_path may have
LocalDirNames == {en, zh_CN, zh_cn, zhDCN}

\* languages the remote project may hold at start
ProjectLanguages == {es, zhDCN, zhDHans}

\* contents of the poeditor_fixes file: (local, server) pairs
FixesChoices == { <<>>, << <<zh_CN, zhDHans>> >> }

\* what api.list_projects() may return
ProjectsChoices == { <<>>, << [name |-> <<83, 68>>, id |-> 7] >> }   \* "SD"

\* --languages
LanguageFilters == { <<>>, <<zhDcn>>, <<en, ZH_CN>> }

\* ("r" if --reverse else "") + (--sort or "")
SortSpecs == [r : BOOLEAN, k : {"", "l", "s", "n", "p", "t"}]

\* what the operator may type at the delete confirmation
TypedNames == { <<115, 100>>, <<83, 68>>, <<110, 111>> }   \* "sd", "SD", "no"

\* the orders in which a listing may return the members of S
Listings(S) ==
    {f \in [1..Cardinality(S) -> S] : \A a, b \in DOMAIN f : a # b => f[a] # f[b]}

-----------------------------------------------------------------------------
(* State *)

\* `last` and `prev` record the latest two calls: which method (op) on which
\* mapping (idx, 0 for a method of Mappings) with which arguments, the
\* collection and the project's languages before it, what it returned or
\* raised (ret), and for a bulk method its selection (sel), the mappings it
\* called (visited) with what each call returned (results), nb_requested and
\* fails, the number of remote calls made, the directory whose catalog a
\* download wrote (po), and how __main__ ended (main).
NoCall ==
    [op |-> "none", idx |-> 0, accepted |-> FALSE, typed |-> <<>>,
     language_filter |-> <<>>, sort_specs |-> [r |-> FALSE, k |-> ""],
     ms_before |-> <<>>, remote_before |-> {},
     ret |-> "none", sel |-> <<>>, visited |-> <<>>, results |-> <<>>,
     nb_requested |-> 0, fails |-> <<>>, calls |-> 0, po |-> None, main |-> "none"]

Init ==
    /\ pc = "start"
    /\ projects \in ProjectsChoices
    /\ dirs \in {S \in SUBSET LocalDirNames : Cardinality(S) <= MaxLocal}
    /\ remote \in {S \in SUBSET ProjectLanguages : Cardinality(S) <= MaxRemote}
    /\ fixes \in FixesChoices
    /\ mappings = <<>>
    /\ steps = 0
    /\ last = NoCall
    /\ prev = NoCall

\* Mappings.from_project_name: KeyError when the project is unknown
FromProjectName ==
    /\ pc = "start"
    /\ prev' = last
    /\ IF project_name_to_id(projects) = 0
       THEN /\ pc' = "KeyError"
            /\ mappings' = mappings
            /\ last' = [NoCall EXCEPT !.op = "from_project_name", !.ret = "KeyError",
                                      !.remote_before = remote, !.calls = 1]
       ELSE \E ls \in Listings(dirs), rs \in Listings(remote) :
            /\ pc' = "built"
            /\ mappings' = from_project_name(ls, [k \in DOMAIN rs |-> LanguageEntry(rs[k])],
                                             fixes)
            /\ last' = [NoCall EXCEPT !.op = "from_project_name", !.ret = "Mappings",
                                      !.remote_before = remote, !.calls = 2]
    /\ UNCHANGED <<projects, dirs, remote, fixes, steps>>

\* a Mapping method called on mapping i of the built collection
MappingCall(op, i, accepted) ==
    \E o \in {mapping_op(op, mappings[i], remote, dirs, fixes, accepted)} :
        /\ steps' = steps + 1
        /\ mappings' = [mappings EXCEPT ![i] = o.m]
        /\ remote' = o.remote
        /\ dirs' = o.dirs
        /\ prev' = last
        /\ last' = [NoCall EXCEPT !.op = op, !.idx = i, !.accepted = accepted,
                                  !.ms_before = mappings, !.remote_before = remote,
                                  !.ret = o.ret, !.calls = o.calls, !.po = o.po]
        /\ UNCHANGED <<pc, projects, fixes>>

\* the mappings for which sync_to_server calls add_language_to_project
asks_add(ms) == {i \in DOMAIN ms : Truthy(ms[i].local) /\ ~Truthy(ms[i].server)}

MappingSyncFromServer ==
    /\ pc = "built"
    /\ steps < MaxCalls
    /\ \E i \in DOMAIN mappings : MappingCall("sync_from_server", i, FALSE)

MappingSyncToServer ==
    /\ pc = "built"
    /\ steps < MaxCalls
    /\ \E i \in DOMAIN mappings :
           \E accepted \in (IF i \in asks_add(mappings) THEN BOOLEAN ELSE {FALSE}) :
               MappingCall("sync_to_server", i, accepted)

MappingDeleteOnServer ==
    /\ pc = "built"
    /\ steps < MaxCalls
    /\ \E i \in DOMAIN mappings : MappingCall("delete_on_server", i, FALSE)

\* a command of __main__: the bulk method of Mappings, then the summary
Command(op, language_filter, sort_specs, accepted, typed) ==
    \E sel \in {iter(mappings, language_filter, sort_specs)} :
    \E st \in {IF op # "delete_on_server" \/ confirmed(typed)
               THEN bulk_loop(op, sel, fixes, accepted, bulk_start(mappings, remote, dirs))
               ELSE [bulk_start(mappings, remote, dirs) EXCEPT !.ret = "None"]} :
        /\ pc' = "done"
        /\ mappings' = st.mappings
        /\ remote' = st.remote
        /\ dirs' = st.dirs
        /\ prev' = last
        /\ last' = [NoCall EXCEPT !.op = op, !.typed = typed,
                                  !.language_filter = language_filter,
                                  !.sort_specs = sort_specs,
                                  !.ms_before = mappings, !.remote_before = remote,
                                  !.ret = st.ret,
                                  !.sel = IF st.ret = "None" THEN <<>> ELSE sel,
                                  !.visited = st.visited, !.results = st.results,
                                  !.nb_requested = st.nb_requested, !.fails = st.fails,
                                  !.calls = st.calls,
                                  !.main = main_end(st.mappings, st.ret, st.fails)]
        /\ UNCHANGED <<projects, fixes, steps>>

\* --status
PrintTable ==
    /\ pc = "built"
    /\ \E f \in LanguageFilters, s \in SortSpecs :
           Command("print_table", f, s, [i \in DOMAIN mappings |-> FALSE], <<>>)

\* --download
SyncFromServer ==
    /\ pc = "built"
    /\ \E f \in LanguageFilters, s \in SortSpecs :
           Command("sync_from_server", f, s, [i \in DOMAIN mappings |-> FALSE], <<>>)

\* --upload; the service answers each add_language_to_project as it chooses
SyncToServer ==
    /\ pc = "built"
    /\ \E f \in LanguageFilters, s \in SortSpecs :
           \E yes \in SUBSET {i \in asks_add(mappings) :
                                 \/ f = <<>>
                                 \/ \E g \in DOMAIN f : matches_code(mappings[i], f[g])} :
               Command("sync_to_server", f, s, [i \in DOMAIN mappings |-> i \in yes], <<>>)

\* --delete
DeleteOnServer ==
    /\ pc = "built"
    /\ \E f \in LanguageFilters, s \in SortSpecs, t \in TypedNames :
           Command("delete_on_server", f, s, [i \in DOMAIN mappings |-> FALSE], t)

\* The collection is built, then its mappings' methods are called in any order.
Next ==
    \/ FromProjectName
    \/ MappingSyncFromServer
    \/ MappingSyncToServer
    \/ MappingDeleteOnServer

Spec == Init /\ [][Next]_vars

\* A run of __main__: the collection is built, then one command runs.
NextMain ==
    \/ FromProjectName
    \/ PrintTable
    \/ SyncFromServer
    \/ SyncToServer
    \/ DeleteOnServer

SpecMain == Init /\ [][NextMain]_vars

-----------------------------------------------------------------------------
(* Properties *)

\* the codes a lookup is tried with
CodePool == {en, es, fr, zh_CN, zh_cn, ZH_CN, zhDcn, zhDCN, zhDHans}

HasLocal(m) == Truthy(m.local)
HasServer(m) == Truthy(m.server)

\* the latest call was method `op` of one Mapping / of the Mappings collection
MappingCalled(op) == last.op = op /\ last.idx # 0
BulkCalled(op) == last.op = op /\ last.idx = 0 /\ pc = "done"

\* C1: every Mapping of the collection has local_code or remote_code set, and
\* a Mapping.delete_on_server that deleted leaves its mapping local-only.
C1_EveryMappingHasACode ==
    /\ \A i \in DOMAIN mappings : HasLocal(mappings[i]) \/ HasServer(mappings[i])
    /\ MappingCalled("delete_on_server") /\ last.ret = "True"
           => HasLocal(mappings[last.idx]) /\ ~HasServer(mappings[last.idx])

\* C2: mappings are unique by code: no code is matched by two mappings, no two
\* mappings share a local_code, no two share a remote_code.
C2_UniqueByCode ==
    \A i, j \in DOMAIN mappings :
        i # j =>
            /\ \A c \in CodePool : ~(matches_code(mappings[i], c) /\ matches_code(mappings[j], c))
            /\ ~(HasLocal(mappings[i]) /\ mappings[i].local = mappings[j].local)
            /\ ~(HasServer(mappings[i]) /\ mappings[i].server = mappings[j].server)

\* C3: a bulk operation (the delete once confirmed) returns normally, having
\* called every selected mapping in select order; its count is the number of
\* selected mappings and its failures are exactly the calls that did not succeed.
C3_BulkNeverAborts ==
    \A op \in {"print_table", "sync_from_server", "sync_to_server", "delete_on_server"} :
        BulkCalled(op) /\ (op = "delete_on_server" => confirmed(last.typed))
            => /\ last.ret = "tuple"
               /\ last.visited = last.sel
               /\ last.nb_requested = Len(last.sel)
               /\ last.fails = SelectSeq(last.sel, LAMBDA i :
                      \E k \in DOMAIN last.visited :
                          last.visited[k] = i /\ last.results[k] \notin {"True", "str"})

\* C4: an unconfirmed delete_all_on_server makes no remote call, changes no
\* mapping, and returns (0, no failures), which the caller consumes as usual.
C4_UnconfirmedDeleteReturnsZero ==
    BulkCalled("delete_on_server") /\ ~confirmed(last.typed)
        => /\ last.calls = 0
           /\ mappings = last.ms_before
           /\ remote = last.remote_before
           /\ last.ret = "tuple"
           /\ last.nb_requested = 0
           /\ last.fails = <<>>
           /\ last.main = "Done"

\* the remote languages that match no local directory's mapping at the build
Unmatched ==
    {r \in remote :
        \A ls \in Listings(dirs) :
            get_mapping([k \in DOMAIN ls |-> create_local(ls[k])], r, fixes) = 0}

\* C5: in the collection just built, every local directory name is the
\* local_code of exactly one mapping, every remote language is the remote_code
\* of exactly one mapping, and there are |L| + (unmatched remote languages) mappings.
C5_BuildCoversBothSides ==
    last.op = "from_project_name" /\ pc = "built"
        => /\ \A l \in dirs : Cardinality({i \in DOMAIN mappings : mappings[i].local = l}) = 1
           /\ \A r \in remote : Cardinality({i \in DOMAIN mappings : mappings[i].server = r}) = 1
           /\ Len(mappings) = Cardinality(dirs) + Cardinality(Unmatched)

\* the latest two calls are sync_to_server then sync_from_server on one mapping
\* that was local-only, and the service accepted the language (it added it to
\* the project and lists it among its available languages)
C6_RoundTrip ==
    /\ prev.op = "sync_to_server" /\ prev.idx # 0
    /\ MappingCalled("sync_from_server") /\ last.idx = prev.idx
    /\ HasLocal(prev.ms_before[prev.idx]) /\ ~HasServer(prev.ms_before[prev.idx])
    /\ prev.accepted
    /\ \E k \in DOMAIN AvailableLanguages :
           AvailableLanguages[k][2] = _local_to_server(prev.ms_before[prev.idx], fixes)

\* C6: an accepted upload of a local-only mapping followed by a download of the
\* same mapping: neither raises, both report success, the collection keeps its size.
C6_RoundTripSucceeds ==
    C6_RoundTrip
        => /\ prev.ret = "True"
           /\ last.ret = "True"
           /\ Len(mappings) = Len(prev.ms_before)

C6_Witness == C6_RoundTrip /\ last.ret = "True"

\* the local code the selection is ordered by
LocalKey(i) == last.ms_before[i].local

\* a command selected with sort_specs "rl"
C7_SelectedRL ==
    /\ last.idx = 0 /\ pc = "done" /\ last.ret # "None"
    /\ last.sort_specs = [r |-> TRUE, k |-> "l"]

\* the selection is exactly the mappings the filter matches, by descending local code
C7_Descending ==
    /\ \A i \in DOMAIN last.ms_before :
           Cardinality({a \in DOMAIN last.sel : last.sel[a] = i})
               = IF \/ last.language_filter = <<>>
                    \/ \E f \in DOMAIN last.language_filter :
                           matches_code(last.ms_before[i], last.language_filter[f])
                 THEN 1 ELSE 0
    /\ \A a, b \in DOMAIN last.sel :
           a < b => ~StrLess(LocalKey(last.sel[a]), LocalKey(last.sel[b]))

\* C7 (as claimed): select with "rl" orders by descending local code, the
\* mappings without a local code first.
C7_MissingLocalFirst ==
    C7_SelectedRL
        => /\ C7_Descending
           /\ \A a, b \in DOMAIN last.sel :
                  LocalKey(last.sel[a]) = None /\ LocalKey(last.sel[b]) # None => a < b

\* C7 (amended): select with "rl" orders by descending local code, the
\* mappings without a local code (key "") last.
C7_MissingLocalLast ==
    C7_SelectedRL
        => /\ C7_Descending
           /\ \A a, b \in DOMAIN last.sel :
                  LocalKey(last.sel[a]) = None /\ LocalKey(last.sel[b]) # None => b < a

C7_Witness ==
    /\ C7_SelectedRL
    /\ \E a, b \in DOMAIN last.sel :
           LocalKey(last.sel[a]) = None /\ LocalKey(last.sel[b]) # None
    /\ \E a, b \in DOMAIN last.sel :
           StrLess(LocalKey(last.sel[b]), LocalKey(last.sel[a])) /\ LocalKey(last.sel[b]) # None

\* a code lower-cased, with hyphen and underscore identified
Normalized(c) == lower(replace(c, HYPHEN, UNDERSCORE))

\* C8: matches_code(code) is true exactly when code equals local_code or
\* remote_code up to case and up to the hyphen/underscore separator.
C8_MatchesUpToCaseAndSeparator ==
    \A i \in DOMAIN mappings : \A c \in CodePool :
        matches_code(mappings[i], c)
            <=> \/ HasLocal(mappings[i]) /\ Normalized(mappings[i].local) = Normalized(c)
                \/ HasServer(mappings[i]) /\ Normalized(mappings[i].server) = Normalized(c)

\* C9: a language is on the remote project exactly when some mapping has it as
\* remote_code, and a sync_to_server that reports failure added no language.
C9_CollectionMirrorsProject ==
    pc = "built"
        => /\ \A c \in remote : \E i \in DOMAIN mappings : mappings[i].server = c
           /\ \A i \in DOMAIN mappings : HasServer(mappings[i]) => mappings[i].server \in remote
           /\ MappingCalled("sync_to_server") /\ last.ret = "False"
                  => remote = last.remote_before

\* C10: sync_from_server on a mapping that has a local_code leaves it unchanged
\* and writes the catalog under language_root_path/<local_code>/.
C10_DownloadKeepsLocalCode ==
    MappingCalled("sync_from_server") /\ HasLocal(last.ms_before[last.idx])
        => /\ mappings[last.idx].local = last.ms_before[last.idx].local
           /\ last.ret = "True" => last.po = last.ms_before[last.idx].local

====
